---- MODULE Spec2Model ----
(***************************************************************************)
(* Model of my-awesome-npm-package-with-bunjs: the two utility objects     *)
(* numberUtils and stringUtils and the package entry module index.ts.      *)
(*                                                                         *)
(* A JavaScript number is an IEEE-754 double.  The integers the model      *)
(* uses are written  hi * 2^53 + lo  with a small lo, so that both the     *)
(* small integers and the integers around the 53-bit precision limit of a  *)
(* double are covered.  A JavaScript string is a sequence of UTF-16 code   *)
(* units; a code unit is its number (0x61 is "a").                         *)
(***************************************************************************)
EXTENDS Integers, Sequences, FiniteSets, TLC

\* ------------------------------------------------------------------ bounds
MaxHi == 1
MaxLo == 2
MaxElemLo == 1
MaxSeqLen == 3
MaxStrLen == 3
MaxCalls == 3

\* --------------------------------------------------------------- variables
VARIABLES
    input,      \* the value the caller holds, as it was when the caller made it
    heap,       \* the arrays: heap[r] is the content of the array of reference r
    calls,      \* the calls made so far: operation, argument, return value
    loaded,     \* index.ts has been evaluated
    stdout      \* the lines written to standard output

vars == <<input, heap, calls, loaded, stdout>>

\* -------------------------------------------------------- JavaScript numbers
\* The integer hi * 2^53 + lo.
Num(hi, lo) == [hi |-> hi, lo |-> lo]

Zero == Num(0, 0)

Negate(x) == Num(-x.hi, -x.lo)

IsNegative(x) == x.hi < 0 \/ (x.hi = 0 /\ x.lo < 0)

Abs(x) == IF IsNegative(x) THEN Negate(x) ELSE x

\* The mathematical sum, before it is rounded to a double.
ExactAdd(a, b) == Num(a.hi + b.hi, a.lo + b.lo)

RECURSIVE Log2(_)
Log2(n) == IF n < 2 THEN 0 ELSE 1 + Log2(n \div 2)

\* Round a non-negative integer to the nearest double, ties to the even
\* significand.  Below 2^53 every integer is a double; in [2^k * 2^53,
\* 2^(k+1) * 2^53) the doubles are the multiples of 2^(k+1).
RoundNonNegative(x) ==
    LET top == IF x.lo >= 0 THEN x.hi ELSE x.hi - 1
    IN  IF top <= 0
        THEN x
        ELSE LET ulp == 2 ^ (Log2(top) + 1)
                 q   == x.lo \div ulp
                 r   == x.lo - q * ulp
                 up  == \/ 2 * r > ulp
                        \/ (2 * r = ulp /\ q % 2 = 1)
             IN  Num(x.hi, IF up THEN (q + 1) * ulp ELSE q * ulp)

RoundToDouble(x) ==
    IF IsNegative(x) THEN Negate(RoundNonNegative(Negate(x)))
                     ELSE RoundNonNegative(x)

\* The + of two numbers (acc + val).
JsAdd(a, b) == RoundToDouble(ExactAdd(a, b))

\* x % 2: the remainder takes the sign of the dividend, so it is -1 for a
\* negative odd x.  hi * 2^53 is even, the parity is the parity of lo.
\* (The -0 that a negative even x gives is === 0, it is written 0 here.)
JsRem2(x) ==
    LET m == (IF x.lo < 0 THEN -x.lo ELSE x.lo) % 2
    IN  IF IsNegative(x) THEN -m ELSE m

\* The callback of sum: (acc, val) => acc + val.
callback(acc, val) == JsAdd(acc, val)

\* Array.prototype.reduce(callback, initialValue): the accumulator starts at
\* initialValue and takes each element in index order.
reduce(O, initialValue) ==
    LET acc[k \in 0..Len(O)] ==
            IF k = 0 THEN initialValue ELSE callback(acc[k - 1], O[k])
    IN  acc[Len(O)]

\* Array.prototype.reduceRight(callback, initialValue).
reduceRight(O, initialValue) ==
    LET acc[k \in 0..Len(O)] ==
            IF k = 0 THEN initialValue
                     ELSE callback(acc[k - 1], O[Len(O) + 1 - k])
    IN  acc[Len(O)]

\* -------------------------------------------------------------- numberUtils
isEven(num) == JsRem2(num) = 0

\* isOdd written as  num % 2 === 1.
isOddRemainderIsOne(num) == JsRem2(num) = 1

\* isOdd written as  num % 2 !== 1.
isOddNotOne(num) == JsRem2(num) # 1

isOdd(num) == JsRem2(num) # 0

\* sum written with reduceRight.
sumReduceRight(nums) == reduceRight(nums, Zero)

\* sum that starts at the second element: nums.slice(1).reduce(...).
sumSkipFirst(nums) == reduce(SubSeq(nums, 2, Len(nums)), Zero)

\* sum that keeps its total in a variable of the module:
\* let total = 0;  sum: (nums) => (total = nums.reduce(..., total)).
sumRetainedTotal(nums) ==
    LET earlier == {i \in DOMAIN calls : calls[i].op = "sum"}
        last    == CHOOSE i \in earlier : \A j \in earlier : j <= i
    IN  reduce(nums, IF earlier = {} THEN Zero ELSE calls[last].ret)

\* sum written with the initial value 1.
sumStartsAtOne(nums) == reduce(nums, Num(0, 1))

sum(nums) == reduce(nums, Zero)

\* reduce raises a TypeError on an empty array when it is given no initial
\* value.
reduceThrows(O, initialValuePresent) == Len(O) = 0 /\ ~initialValuePresent

\* sum written without the initial value.
sumThrowsNoInitialValue(nums) == reduceThrows(nums, FALSE)

\* sum raises an error: reduce is given the initial value 0.
sumThrows(nums) == reduceThrows(nums, TRUE)

\* -------------------------------------------------------- JavaScript strings
\* String.prototype.charAt(pos): the code unit at index pos (from 0) as a
\* string of length 1, the empty string when pos is out of range.
charAt(str, pos) == IF pos >= 0 /\ pos < Len(str) THEN <<str[pos + 1]>> ELSE <<>>

\* String.prototype.slice(start) for a start >= 0.
slice(str, start) == SubSeq(str, start + 1, Len(str))

IsHighSurrogate(c) == c >= 55296 /\ c <= 56319

IsLowSurrogate(c) == c >= 56320 /\ c <= 57343

\* The upper-case mapping of one BMP code point (Unicode SpecialCasing and
\* UnicodeData for Basic Latin, Latin-1 and U+0149).  A lone surrogate maps
\* to itself.
UpperOfUnit(c) ==
    IF c >= 97 /\ c <= 122 THEN <<c - 32>>
    ELSE IF c = 181 THEN <<924>>
    ELSE IF c = 223 THEN <<83, 83>>
    ELSE IF c >= 224 /\ c <= 254 /\ c # 247 THEN <<c - 32>>
    ELSE IF c = 255 THEN <<376>>
    ELSE IF c = 329 THEN <<700, 78>>
    ELSE <<c>>

\* The upper-case mapping of a supplementary code point given as a surrogate
\* pair: Deseret small letters U+10428..U+1044F map to U+10400..U+10427.
UpperOfPair(h, l) ==
    IF h = 55297 /\ l >= 56360 /\ l <= 56399 THEN <<h, l - 40>> ELSE <<h, l>>

\* String.prototype.toUpperCase(): code point by code point.
RECURSIVE toUpperCase(_)
toUpperCase(str) ==
    IF str = <<>> THEN <<>>
    ELSE IF Len(str) >= 2 /\ IsHighSurrogate(str[1]) /\ IsLowSurrogate(str[2])
         THEN UpperOfPair(str[1], str[2]) \o toUpperCase(SubSeq(str, 3, Len(str)))
         ELSE UpperOfUnit(str[1]) \o toUpperCase(Tail(str))

\* String.prototype.split(""): the array of the code units, each a string.
splitEmpty(str) == [i \in 1..Len(str) |-> <<str[i]>>]

\* Array.prototype.reverse(): swaps the elements at lower and len-1-lower, in
\* place, for lower from 0 up to the middle.
RECURSIVE reverseFrom(_, _)
reverseFrom(O, lower) ==
    IF lower >= Len(O) \div 2
    THEN O
    ELSE LET upper == Len(O) - 1 - lower
         IN  reverseFrom([O EXCEPT ![lower + 1] = O[upper + 1],
                                   ![upper + 1] = O[lower + 1]], lower + 1)

arrayReverse(O) == reverseFrom(O, 0)

\* Array.prototype.join(separator).
RECURSIVE join(_, _)
join(O, sep) ==
    IF O = <<>> THEN <<>>
    ELSE IF Len(O) = 1 THEN O[1]
    ELSE O[1] \o sep \o join(Tail(O), sep)

\* The class \s of a regular expression: WhiteSpace and LineTerminator.
IsWhiteSpace(c) ==
    \/ c \in {9, 10, 11, 12, 13, 32, 160, 5760, 8232, 8233, 8239, 8287,
              12288, 65279}
    \/ (c >= 8192 /\ c <= 8202)

\* /\s+/ matched at index q (from 0): the index after the longest run of
\* white space that starts at q, or -1 when the code unit at q is none.
RECURSIVE matchWhiteSpaceRun(_, _)
matchWhiteSpaceRun(S, q) ==
    IF q < Len(S) /\ IsWhiteSpace(S[q + 1])
    THEN LET e == matchWhiteSpaceRun(S, q + 1)
         IN  IF e = -1 THEN q + 1 ELSE e
    ELSE -1

\* The loop of RegExp.prototype[Symbol.split]: p is the start of the current
\* piece, q the index where a match is tried, A the pieces so far.
RECURSIVE splitLoop(_, _, _, _)
splitLoop(S, p, q, A) ==
    IF q >= Len(S)
    THEN Append(A, SubSeq(S, p + 1, Len(S)))
    ELSE LET e == matchWhiteSpaceRun(S, q)
         IN  IF e = -1 \/ e = p
             THEN splitLoop(S, p, q + 1, A)
             ELSE splitLoop(S, e, e, Append(A, SubSeq(S, p + 1, q)))

\* String.prototype.split(/\s+/).  The empty string gives the array [""],
\* as /\s+/ does not match it.
splitWhiteSpace(S) ==
    IF Len(S) = 0 THEN << <<>> >> ELSE splitLoop(S, 0, 0, <<>>)

\* Array.prototype.filter(Boolean) on strings: the empty string is falsy.
filterBoolean(O) == SelectSeq(O, LAMBDA t : t # <<>>)

\* -------------------------------------------------------------- stringUtils
\* capitalize that upper-cases the whole string.
capitalizeWhole(str) == toUpperCase(str)

\* capitalize written with slice(0).
capitalizeSliceZero(str) == toUpperCase(charAt(str, 0)) \o slice(str, 0)

capitalize(str) == toUpperCase(charAt(str, 0)) \o slice(str, 1)

\* reverse that leaves out the call of reverse().
reverseNotReversed(str) == join(splitEmpty(str), <<>>)

\* reverse written with join(), whose default separator is ",".
reverseJoinDefault(str) == join(arrayReverse(splitEmpty(str)), <<44>>)

\* reverse written with join(" ").
reverseJoinSpace(str) == join(arrayReverse(splitEmpty(str)), <<32>>)

reverse(str) == join(arrayReverse(splitEmpty(str)), <<>>)

\* countWords without filter(Boolean).
countWordsNoFilter(str) == Len(splitWhiteSpace(str))

countWords(str) == Len(filterBoolean(splitWhiteSpace(str)))

\* -------------------------------------------------------------- the arrays
\* sum that empties its argument: while (nums.length) total += nums.pop().
sumHeapPopped(h, ref) == [h EXCEPT ![ref] = <<>>]

\* The arrays after sum(nums), nums being the array of reference ref: reduce
\* reads the elements of nums and the callback adds two numbers, neither
\* stores into an array.
sumHeap(h, ref) == h

\* The arrays after reverse(str): split("") makes a new array, reverse()
\* reverses that array in place, join("") reads it.
reverseHeap(h, str) ==
    LET h1  == Append(h, splitEmpty(str))
        ref == Len(h1)
    IN  [h1 EXCEPT ![ref] = arrayReverse(h1[ref])]

\* The arrays after countWords(str): split(/\s+/) makes a new array and
\* filter(Boolean) another.
countWordsHeap(h, str) ==
    LET h1 == Append(h, splitWhiteSpace(str))
    IN  Append(h1, filterBoolean(h1[Len(h1)]))

\* ------------------------------------------------------------------ inputs
\* A number holds an integer only if the integer is a double.
IsDouble(x) == RoundToDouble(x) = x

Numbers ==
    {x \in {Num(hi, lo) : hi \in -MaxHi..MaxHi, lo \in -MaxLo..MaxLo} :
        IsDouble(x)}

RECURSIVE SeqsUpTo(_, _)
SeqsUpTo(S, n) ==
    IF n = 0 THEN {<<>>}
    ELSE LET shorter == SeqsUpTo(S, n - 1)
         IN  shorter \cup {Append(t, x) : t \in shorter, x \in S}

\* The elements of the sequences: the integers near 0 and near the positive
\* multiples of 2^53.
ElemNumbers ==
    {x \in {Num(hi, lo) : hi \in 0..MaxHi, lo \in -MaxElemLo..MaxElemLo} :
        IsDouble(x)}

NumberSeqs == SeqsUpTo(ElemNumbers, MaxSeqLen)

\* tab, space, "A", "a", sharp s, and the high surrogate of U+10428.
CodeUnits == {9, 32, 65, 97, 223, 55297}

Strings == SeqsUpTo(CodeUnits, MaxStrLen)

\* ------------------------------------------------------------------- state
Init ==
    /\ \/ \E n \in Numbers : input = [kind |-> "number", val |-> n]
       \/ \E S \in NumberSeqs : input = [kind |-> "number[]", val |-> S]
       \/ \E s \in Strings : input = [kind |-> "string", val |-> s]
    /\ heap = IF input.kind = "number[]" THEN <<input.val>> ELSE <<>>
    /\ calls = <<>>
    /\ loaded = FALSE
    /\ stdout = <<>>

\* The reference of the caller's array.
CallerRef == 1

LastCall == calls[Len(calls)]

\* The numbers the caller can pass: its own, or a number a call returned.
NumberArgs ==
    (IF input.kind = "number" THEN {input.val} ELSE {})
    \cup (IF calls # <<>> /\ LastCall.op \in {"sum", "countWords"}
          THEN {LastCall.ret} ELSE {})

\* The arrays the caller can pass: its own, by reference.
NumberSeqArgs == IF input.kind = "number[]" THEN {CallerRef} ELSE {}

\* The strings the caller can pass: its own, or a string a call returned.
StringArgs ==
    (IF input.kind = "string" THEN {input.val} ELSE {})
    \cup (IF calls # <<>> /\ LastCall.op \in {"capitalize", "reverse"}
          THEN {LastCall.ret} ELSE {})

\* A call returns: it is recorded, and the arrays are as the call left them.
\* threw tells that the call raised an error instead.
Return(op, arg, ret, threw, h) ==
    /\ Len(calls) < MaxCalls
    /\ calls' = Append(calls,
                      [op |-> op, arg |-> arg, ret |-> ret, threw |-> threw])
    /\ heap' = h
    /\ UNCHANGED <<input, loaded, stdout>>

\* %, === and !== on a number, and charAt, toUpperCase, slice, split,
\* reverse, join and filter on a string or on a new array raise no error.
CallIsEven ==
    \E num \in NumberArgs : Return("isEven", num, isEven(num), FALSE, heap)

CallIsOdd ==
    \E num \in NumberArgs : Return("isOdd", num, isOdd(num), FALSE, heap)

CallSum ==
    \E ref \in NumberSeqArgs :
        Return("sum", heap[ref], sum(heap[ref]), sumThrows(heap[ref]),
               sumHeap(heap, ref))

CallCapitalize ==
    \E str \in StringArgs :
        Return("capitalize", str, capitalize(str), FALSE, heap)

CallReverse ==
    \E str \in StringArgs :
        Return("reverse", str, reverse(str), FALSE, reverseHeap(heap, str))

CallCountWords ==
    \E str \in StringArgs :
        Return("countWords", str, Num(0, countWords(str)), FALSE,
               countWordsHeap(heap, str))

\* The evaluation of index.ts, on its first import: the re-exports bind
\* numberUtils and stringUtils, then line 7 writes a line.
LoadIndex ==
    /\ ~loaded
    /\ loaded' = TRUE
    /\ stdout' = Append(stdout, "Hello via Bun!")
    /\ UNCHANGED <<input, heap, calls>>

Next ==
    \/ CallIsEven
    \/ CallIsOdd
    \/ CallSum
    \/ CallCapitalize
    \/ CallReverse
    \/ CallCountWords
    \/ LoadIndex

Spec == Init /\ [][Next]_vars

\* ------------------------------------------------------------- properties
CallsOf(op) == {i \in DOMAIN calls : calls[i].op = op}

\* n = 2 * k for an integer k.  hi * 2^53 is 2 * (hi * 2^52), so n is
\* divisible by 2 exactly when lo is.
DivisibleBy2(n) ==
    LET m == IF n.lo < 0 THEN -n.lo ELSE n.lo
    IN  \E k \in -m..m : n.lo = 2 * k

\* C1: for every integer n, isOdd(n) is the negation of isEven(n): of the two
\* calls on the same n, exactly one returns true.
C1_IsOddNegatesIsEven ==
    \A i \in CallsOf("isEven") : \A j \in CallsOf("isOdd") :
        calls[i].arg = calls[j].arg =>
            /\ calls[j].ret = ~calls[i].ret
            /\ (calls[i].ret \/ calls[j].ret)
            /\ ~(calls[i].ret /\ calls[j].ret)

\* isEven and isOdd have both been called on a negative odd integer.
C1_Witness ==
    \E i \in CallsOf("isEven") : \E j \in CallsOf("isOdd") :
        /\ calls[i].arg = calls[j].arg
        /\ IsNegative(calls[i].arg)
        /\ ~DivisibleBy2(calls[i].arg)

\* C2: for every integer n, isEven(n) is true iff n is divisible by 2, and
\* isOdd(n) is true iff n is not divisible by 2, negative n included.
C2_ParityIsDivisibility ==
    /\ \A i \in CallsOf("isEven") : calls[i].ret = DivisibleBy2(calls[i].arg)
    /\ \A i \in CallsOf("isOdd") : calls[i].ret = ~DivisibleBy2(calls[i].arg)

\* isOdd has returned true on a negative odd integer, whose remainder is -1.
C2_Witness ==
    \E i \in CallsOf("isOdd") :
        /\ JsRem2(calls[i].arg) = -1
        /\ calls[i].ret = TRUE

\* The additive fold from the left, starting from 0: the fold of S followed
\* by x is the fold of S, plus x.
RECURSIVE FoldFromZero(_)
FoldFromZero(S) ==
    IF S = <<>> THEN Zero
    ELSE JsAdd(FoldFromZero(SubSeq(S, 1, Len(S) - 1)), S[Len(S)])

\* C3: sum(S) is the left-to-right additive fold of S from the accumulator 0,
\* and 0 for the empty sequence.
C3_SumIsLeftFold ==
    \A i \in CallsOf("sum") :
        /\ calls[i].ret = FoldFromZero(calls[i].arg)
        /\ (calls[i].arg = <<>> => calls[i].ret = Zero)

\* sum has been called on three or more integers, one of them beyond 2^52.
C3_Witness ==
    \E i \in CallsOf("sum") :
        /\ Len(calls[i].arg) >= 3
        /\ \E k \in DOMAIN calls[i].arg : calls[i].arg[k].hi # 0
        /\ calls[i].ret # Zero

\* The number of maximal runs of non-white-space code units of s: the number
\* of places where such a run starts.
Runs(s) ==
    Cardinality({k \in DOMAIN s :
        /\ ~IsWhiteSpace(s[k])
        /\ (k = 1 \/ IsWhiteSpace(s[k - 1]))})

\* C4: countWords(s) is the number of maximal runs of non-white-space
\* characters of s; it is 0 for the empty string and for white space only.
C4_CountWordsIsRuns ==
    \A i \in CallsOf("countWords") :
        /\ calls[i].ret = Num(0, Runs(calls[i].arg))
        /\ ((\A k \in DOMAIN calls[i].arg : IsWhiteSpace(calls[i].arg[k]))
                => calls[i].ret = Zero)

\* countWords has been called on a string that starts with white space, has
\* two white-space characters in a row and a word.
C4_Witness ==
    \E i \in CallsOf("countWords") :
        LET s == calls[i].arg
        IN  /\ s # <<>>
            /\ IsWhiteSpace(s[1])
            /\ \E k \in 2..Len(s) : IsWhiteSpace(s[k - 1]) /\ IsWhiteSpace(s[k])
            /\ calls[i].ret.lo >= 1

\* C5: capitalize(s) is the upper-case mapping of the first character of s,
\* followed by the characters of s after the first, unchanged and in order;
\* it is the empty string for the empty string.
C5_CapitalizeIsUpperFirst ==
    \A i \in CallsOf("capitalize") :
        LET s == calls[i].arg
            r == calls[i].ret
        IN  IF s = <<>>
            THEN r = <<>>
            ELSE LET u == toUpperCase(<<s[1]>>)
                 IN  /\ Len(r) = Len(u) + Len(s) - 1
                     /\ \A k \in 1..Len(u) : r[k] = u[k]
                     /\ \A k \in 2..Len(s) : r[Len(u) + k - 1] = s[k]

\* capitalize has been called on a string of two or more characters whose
\* first character changes and whose later characters have an upper case too.
C5_Witness ==
    \E i \in CallsOf("capitalize") :
        LET s == calls[i].arg
        IN  /\ Len(s) >= 2
            /\ toUpperCase(<<s[1]>>) # <<s[1]>>
            /\ toUpperCase(<<s[2]>>) # <<s[2]>>

\* C6: reverse(s) has the length n of s, and its unit at index i is the unit
\* of s at index n-1-i; it is the empty string for the empty string.
C6_ReverseIsMirror ==
    \A i \in CallsOf("reverse") :
        LET s == calls[i].arg
            r == calls[i].ret
            n == Len(s)
        IN  /\ Len(r) = n
            /\ \A k \in 0..(n - 1) : r[k + 1] = s[(n - 1 - k) + 1]
            /\ (s = <<>> => r = <<>>)

\* reverse has been called on a string of three or more units that is not a
\* palindrome.
C6_Witness ==
    \E i \in CallsOf("reverse") :
        /\ Len(calls[i].arg) >= 3
        /\ calls[i].arg[1] # calls[i].arg[Len(calls[i].arg)]
        /\ calls[i].ret # calls[i].arg

\* Call i+1 is made on what call i returned.
Chained(i) == calls[i + 1].arg = calls[i].ret

Twice(op) ==
    {i \in 1..(Len(calls) - 1) :
        calls[i].op = op /\ calls[i + 1].op = op /\ Chained(i)}

\* C7: reverse(reverse(s)) = s.
C7_ReverseIsInvolution ==
    \A i \in Twice("reverse") : calls[i + 1].ret = calls[i].arg

\* reverse has been applied twice to a string that is not a palindrome.
C7_Witness ==
    \E i \in Twice("reverse") :
        /\ Len(calls[i].arg) >= 2
        /\ calls[i].ret # calls[i].arg

\* C8: capitalize(capitalize(s)) = capitalize(s), also when the upper case of
\* the first character is longer than one character.
C8_CapitalizeIsIdempotent ==
    \A i \in Twice("capitalize") : calls[i + 1].ret = calls[i].ret

\* capitalize has been applied twice to a string whose first character has an
\* upper case of two characters.
C8_Witness ==
    \E i \in Twice("capitalize") :
        /\ calls[i].arg # <<>>
        /\ Len(toUpperCase(<<calls[i].arg[1]>>)) = 2
        /\ Len(calls[i].ret) = Len(calls[i].arg) + 1

\* S with its elements in reverse order.
ReverseSeq(S) == [k \in 1..Len(S) |-> S[Len(S) + 1 - k]]

\* C9, as claimed: for every finite sequence S of integers, sum(S) equals
\* sum of S reversed.
C9_SumOfReverse ==
    \A i \in CallsOf("sum") : calls[i].ret = sum(ReverseSeq(calls[i].arg))

\* The mathematical sum of S.
RECURSIVE ExactSum(_)
ExactSum(S) == IF S = <<>> THEN Zero ELSE ExactAdd(S[1], ExactSum(Tail(S)))

AtMost2To53(x) == x.hi < 1 \/ (x.hi = 1 /\ x.lo <= 0)

\* Every running total of S is at most 2^53 in magnitude.
RunningTotalsExact(S) ==
    \A k \in 1..Len(S) : AtMost2To53(Abs(ExactSum(SubSeq(S, 1, k))))

\* C9, amended: for every finite sequence S of integers whose running totals,
\* taken in either order, stay within 2^53 in magnitude, sum(S) equals sum of
\* S reversed.
C9_SumOfReverseWhenExact ==
    \A i \in CallsOf("sum") :
        (RunningTotalsExact(calls[i].arg)
            /\ RunningTotalsExact(ReverseSeq(calls[i].arg)))
        => calls[i].ret = sum(ReverseSeq(calls[i].arg))

\* sum has been called on three or more integers, not the same read
\* backwards, one of them beyond 2^52, whose running totals stay within 2^53.
C9_Witness ==
    \E i \in CallsOf("sum") :
        LET S == calls[i].arg
        IN  /\ Len(S) >= 3
            /\ S # ReverseSeq(S)
            /\ \E k \in DOMAIN S : S[k].hi # 0
            /\ RunningTotalsExact(S)
            /\ RunningTotalsExact(ReverseSeq(S))

\* C10: index.ts does nothing but re-export: once it is loaded, nothing has
\* been written to the output.
C10_LoadIndexWritesNothing == loaded => stdout = <<>>

\* C11: no operation mutates its input: a step leaves the caller's value and
\* every array that exists as they are, so after sum(S) the caller's S has
\* the same elements in the same order, and reverse reverses a new array.
C11_InputsNotMutated ==
    [][/\ input' = input
       /\ \A r \in DOMAIN heap : r \in DOMAIN heap' /\ heap'[r] = heap[r]]_vars

\* sum has returned on the caller's array of two or more different integers,
\* and the array is as the caller made it.
C11_Witness ==
    /\ input.kind = "number[]"
    /\ \E i \in CallsOf("sum") :
        /\ Len(calls[i].arg) >= 2
        /\ calls[i].arg # ReverseSeq(calls[i].arg)
        /\ heap[CallerRef] = calls[i].arg
        /\ heap[CallerRef] = input.val

IsNumberValue(x) == x.hi \in Int /\ x.lo \in Int /\ IsDouble(x)

IsStringValue(s) == s \in Seq(0..65535)

\* C13: the six operations are total: every call returns, without an error,
\* a value of the declared type (a boolean from isEven and isOdd, a number
\* from sum and countWords, a string from capitalize and reverse), the empty
\* sequence and the empty string included.
C13_OperationsAreTotal ==
    \A i \in DOMAIN calls :
        /\ ~calls[i].threw
        /\ calls[i].op \in {"isEven", "isOdd"} => calls[i].ret \in BOOLEAN
        /\ calls[i].op \in {"sum", "countWords"} => IsNumberValue(calls[i].ret)
        /\ calls[i].op \in {"capitalize", "reverse"} => IsStringValue(calls[i].ret)

\* sum has returned 0 on the empty sequence, and isEven has returned on it.
C13_Witness ==
    /\ \E i \in CallsOf("sum") :
        calls[i].arg = <<>> /\ ~calls[i].threw /\ calls[i].ret = Zero
    /\ \E i \in CallsOf("isEven") : calls[i].arg = Zero /\ calls[i].ret = TRUE

\* C14: countWords(reverse(s)) = countWords(s): the count returned on what
\* reverse(s) returned is the count returned on s.
C14_CountWordsOfReverse ==
    \A i \in CallsOf("reverse") :
        \A j \in CallsOf("countWords") : \A k \in CallsOf("countWords") :
            (calls[j].arg = calls[i].ret /\ calls[k].arg = calls[i].arg)
                => calls[j].ret = calls[k].ret

\* countWords has been called on s and on reverse(s), for an s that starts
\* with white space, does not end with it and has a word.
C14_Witness ==
    \E i \in CallsOf("reverse") :
        \E j \in CallsOf("countWords") : \E k \in CallsOf("countWords") :
            LET s == calls[i].arg
            IN  /\ calls[j].arg = calls[i].ret
                /\ calls[k].arg = s
                /\ Len(s) >= 2
                /\ IsWhiteSpace(s[1])
                /\ ~IsWhiteSpace(s[Len(s)])
                /\ calls[k].ret.lo >= 1

\* The ways to cut U in two: S is the first k elements, T the others.
Cuts(U) == 0..Len(U)

Front(U, k) == SubSeq(U, 1, k)

Back(U, k) == SubSeq(U, k + 1, Len(U))

\* C15, as claimed: for all finite sequences S and T of integers, sum of S
\* followed by T is sum(S) + sum(T).
C15_SumOfConcatenation ==
    \A i \in CallsOf("sum") : \A k \in Cuts(calls[i].arg) :
        calls[i].ret =
            JsAdd(sum(Front(calls[i].arg, k)), sum(Back(calls[i].arg, k)))

\* C15, amended: for all finite sequences S and T of integers such that the
\* running totals of S followed by T, and those of T, stay within 2^53 in
\* magnitude, sum of S followed by T is sum(S) + sum(T).
C15_SumOfConcatenationWhenExact ==
    \A i \in CallsOf("sum") : \A k \in Cuts(calls[i].arg) :
        (RunningTotalsExact(calls[i].arg)
            /\ RunningTotalsExact(Back(calls[i].arg, k)))
        => calls[i].ret =
            JsAdd(sum(Front(calls[i].arg, k)), sum(Back(calls[i].arg, k)))

\* sum has been called on S followed by T, both with an element other than 0
\* and one beyond 2^52, where the running totals stay within 2^53.
C15_Witness ==
    \E i \in CallsOf("sum") : \E k \in Cuts(calls[i].arg) :
        LET U == calls[i].arg
        IN  /\ k >= 1
            /\ k < Len(U)
            /\ \E m \in 1..k : U[m] # Zero
            /\ \E m \in (k + 1)..Len(U) : U[m] # Zero
            /\ \E m \in DOMAIN U : U[m].hi # 0
            /\ RunningTotalsExact(U)
            /\ RunningTotalsExact(Back(U, k))

====
